---- MODULE Spec2Model ----
(***************************************************************************)
(* Model of app.py, the Provisional Natality dashboard: a script that the  *)
(* UI framework re-executes top to bottom on every user interaction.       *)
(* State that survives a rerun: the cached dataset file, the three sidebar *)
(* selections and st.session_state.messages.  Everything else is           *)
(* recomputed by each run and recorded here as that run's output.          *)
(*                                                                         *)
(* Numbers are counted in halves (Fin(3) is 1.5) so that int() truncates.  *)
(***************************************************************************)
EXTENDS Integers, Sequences, FiniteSets, TLC

VARIABLES
    file,           \* the CSV behind load_data(), memoized: never changes
    state_sel,      \* value of the "State" multiselect
    gender_sel,     \* value of the "Gender" multiselect
    month_sel,      \* value of the "Month" multiselect
    session_state,  \* st.session_state: whether "messages" exists, and the list
    rendered,       \* what the last run put on the page
    missing,        \* the list named by the "Missing required columns" error
    df,             \* the last run's normalized frame
    filtered,       \* the last run's filtered rows
    context,        \* <<context>> if the last run built the chat context
    run,            \* the last run's inputs: chat input and remote behaviour
    posts,          \* number of requests.post calls made so far
    submits         \* number of chat submissions so far

vars == <<file, state_sel, gender_sel, month_sel, session_state, rendered,
          missing, df, filtered, context, run, posts, submits>>

-----------------------------------------------------------------------------
(* Bounds of the model *)

MaxRows == 2

MaxSubmits == 2

-----------------------------------------------------------------------------
(* Sequence helpers *)

Range(s) == {s[i] : i \in DOMAIN s}

InSeq(x, s) == \E i \in DOMAIN s : s[i] = x

IsPrefix(s, t) == Len(s) <= Len(t) /\ \A i \in 1..Len(s) : s[i] = t[i]

-----------------------------------------------------------------------------
(* Column names are sequences of characters. *)

UpperChars == <<"A","B","C","D","E","F","G","H","I","J","K","L","M",
                "N","O","P","Q","R","S","T","U","V","W","X","Y","Z">>

LowerChars == <<"a","b","c","d","e","f","g","h","i","j","k","l","m",
                "n","o","p","q","r","s","t","u","v","w","x","y","z">>

IsSpace(c) == c \in {" ", "\t"}

\* str.strip(): leading and trailing whitespace removed
RECURSIVE FirstKept(_, _)
FirstKept(s, i) ==
    IF i <= Len(s) /\ IsSpace(s[i]) THEN FirstKept(s, i + 1) ELSE i

RECURSIVE LastKept(_, _)
LastKept(s, i) ==
    IF i >= 1 /\ IsSpace(s[i]) THEN LastKept(s, i - 1) ELSE i

Strip(s) == SubSeq(s, FirstKept(s, 1), LastKept(s, Len(s)))

UpperSet == Range(UpperChars)

\* str.lower()
RECURSIVE LowerFrom(_, _)
LowerFrom(c, i) ==
    IF UpperChars[i] = c THEN LowerChars[i] ELSE LowerFrom(c, i + 1)

LowerChar(c) == IF c \in UpperSet THEN LowerFrom(c, 1) ELSE c

Lower(s) == [i \in 1..Len(s) |-> LowerChar(s[i])]

\* str.replace(" ", "_")
ReplaceSpaces(s) == [i \in 1..Len(s) |-> IF s[i] = " " THEN "_" ELSE s[i]]

\* c.strip().lower().replace(" ", "_")
NormalizeName(c) ==
    LET name == ReplaceSpaces(Lower(Strip(c))) IN SubSeq(name, 1, Len(name))

state_of_residence == <<"s","t","a","t","e","_","o","f","_","r","e","s","i","d","e","n","c","e">>

month == <<"m","o","n","t","h">>

month_code == <<"m","o","n","t","h","_","c","o","d","e">>

year_code == <<"y","e","a","r","_","c","o","d","e">>

sex_of_infant == <<"s","e","x","_","o","f","_","i","n","f","a","n","t">>

births == <<"b","i","r","t","h","s">>

required_cols == <<state_of_residence, month, month_code, year_code, sex_of_infant, births>>

-----------------------------------------------------------------------------
(* Numbers: finite values in halves, infinity, and NaN (a missing value).  *)

Fin(n) == [k |-> "fin", v |-> n]

Inf == [k |-> "inf", v |-> 0]

NaN == [k |-> "nan", v |-> 0]

IsNa(x) == x.k = "nan"

\* float addition
Add(x, y) ==
    IF x.k = "nan" \/ y.k = "nan" THEN NaN
    ELSE IF x.k = "inf" \/ y.k = "inf" THEN Inf
    ELSE Fin(x.v + y.v)

\* int(x) raises OverflowError on infinity and ValueError on NaN
IntRaises(x) == x.k # "fin"

\* int(x) truncates toward zero; the result is in units of one
IntOf(x) == IF x.v >= 0 THEN x.v \div 2 ELSE -((-x.v) \div 2)

\* pd.to_numeric(cell, errors="coerce") on the cell texts of the model
ToNumeric(cell) ==
    CASE cell = "-1"  -> Fin(-2)
      [] cell = "0"   -> Fin(0)
      [] cell = "1"   -> Fin(2)
      [] cell = "1.5" -> Fin(3)
      [] cell = "2"   -> Fin(4)
      [] cell = "inf" -> Inf
      [] OTHER        -> NaN

-----------------------------------------------------------------------------
(* The dataset file.  A cell "" is an empty CSV field, read as missing.    *)

NA == ""

NoFile == [present |-> FALSE, header |-> <<>>, rows |-> <<>>]

\* load_data(): the file, or None when reading it raises
load_data == file

\* df = df_raw.copy(); df.columns = [normalized names]
RECURSIVE NormalizeNames(_, _)
NormalizeNames(names, i) ==
    IF i > Len(names) THEN <<>>
    ELSE <<NormalizeName(names[i])>> \o NormalizeNames(names, i + 1)

RenameColumns(df_raw) ==
    [columns |-> NormalizeNames(df_raw.header, 1), rows |-> df_raw.rows]

\* missing = [c for c in required_cols if c not in df.columns]
MissingCols(frame) == SelectSeq(required_cols, LAMBDA c : ~InSeq(c, frame.columns))

\* position of a column in the frame
Col(frame, name) == CHOOSE i \in DOMAIN frame.columns : frame.columns[i] = name

\* df["births"] = pd.to_numeric(df["births"], errors="coerce")
RECURSIVE CoerceColumn(_, _, _)
CoerceColumn(rows, b, i) ==
    IF i > Len(rows) THEN <<>>
    ELSE <<[rows[i] EXCEPT ![b] = ToNumeric(@)]>> \o CoerceColumn(rows, b, i + 1)

CoerceBirths(frame) ==
    [frame EXCEPT !.rows = CoerceColumn(frame.rows, Col(frame, births), 1)]

\* faulty variant: the dropna is forgotten
DropNaBirths_KeepAll(frame) == frame

\* df = df.dropna(subset=["births"])
DropNaBirths(frame) ==
    LET b == Col(frame, births) IN
    [frame EXCEPT !.rows = SelectSeq(frame.rows, LAMBDA r : ~IsNa(r[b]))]

\* lines 30-48 for a frame that passed the required-column check
Normalize(df_raw) == DropNaBirths(CoerceBirths(RenameColumns(df_raw)))

\* df[col].dropna().unique(), as a set
Observed(frame, name) ==
    {frame.rows[i][Col(frame, name)] : i \in DOMAIN frame.rows} \ {NA}

\* the options offered by a multiselect
Options(frame, name) == {"All"} \cup Observed(frame, name)

\* filtered[filtered[col].isin(sel)]
Isin(frame, name, sel) ==
    LET c == Col(frame, name) IN
    [frame EXCEPT !.rows = SelectSeq(frame.rows, LAMBDA r : r[c] \in sel)]

\* faulty variant: the gender filter restarts from the unfiltered frame
ApplyFilters_Restart(frame, ssel, gsel, msel) ==
    LET f0 == frame
        f1 == IF "All" \notin ssel THEN Isin(f0, state_of_residence, ssel) ELSE f0
        f2 == IF "All" \notin gsel THEN Isin(f0, sex_of_infant, gsel) ELSE f1
        f3 == IF "All" \notin msel THEN Isin(f2, month, msel) ELSE f2
    IN  f3

\* faulty variant: "All" lifts a restriction only when it is the whole selection
ApplyFilters_ExactAll(frame, ssel, gsel, msel) ==
    LET f0 == frame
        f1 == IF ssel # {"All"} THEN Isin(f0, state_of_residence, ssel) ELSE f0
        f2 == IF gsel # {"All"} THEN Isin(f1, sex_of_infant, gsel) ELSE f1
        f3 == IF msel # {"All"} THEN Isin(f2, month, msel) ELSE f2
    IN  f3

\* faulty variant: filtering starts from the frame before dropna
ApplyFilters_BeforeDropna(frame, ssel, gsel, msel) ==
    LET f0 == CoerceBirths(RenameColumns(load_data))
        f1 == IF "All" \notin ssel THEN Isin(f0, state_of_residence, ssel) ELSE f0
        f2 == IF "All" \notin gsel THEN Isin(f1, sex_of_infant, gsel) ELSE f1
        f3 == IF "All" \notin msel THEN Isin(f2, month, msel) ELSE f2
    IN  f3

\* lines 65-74
ApplyFilters(frame, ssel, gsel, msel) ==
    LET f0 == frame
        f1 == IF "All" \notin ssel THEN Isin(f0, state_of_residence, ssel) ELSE f0
        f2 == IF "All" \notin gsel THEN Isin(f1, sex_of_infant, gsel) ELSE f1
        f3 == IF "All" \notin msel THEN Isin(f2, month, msel) ELSE f2
    IN  f3

\* filtered.empty
IsEmpty(frame) == frame.rows = <<>>

-----------------------------------------------------------------------------
(* Aggregation *)

RECURSIVE SumColumn(_, _, _)
SumColumn(rows, b, i) ==
    IF i > Len(rows) THEN Fin(0) ELSE Add(rows[i][b], SumColumn(rows, b, i + 1))

\* frame["births"].sum()
SumBirths(frame) == SumColumn(frame.rows, Col(frame, births), 1)

\* frame.groupby(name)["births"].sum().to_dict(); groupby drops missing keys
GroupBySum(frame, name) ==
    LET c == Col(frame, name) IN
    [key \in Observed(frame, name) |->
        SumBirths([frame EXCEPT !.rows = SelectSeq(frame.rows, LAMBDA r : r[c] = key)])]

\* lines 136-167; int() must not raise
BuildContext(frame, ssel, gsel, msel) ==
    [total_births   |-> IntOf(SumBirths(frame)),
     state_totals   |-> GroupBySum(frame, state_of_residence),
     gender_totals  |-> GroupBySum(frame, sex_of_infant),
     monthly_totals |-> GroupBySum(frame, month),
     filters_applied |-> [states |-> ssel, gender |-> gsel, months |-> msel]]

-----------------------------------------------------------------------------
(* The remote chat endpoint, as seen by one submission.  A JSON object is  *)
(* a record, a JSON array a sequence.                                      *)

FALLBACK == "The AI analyst is currently unavailable."

WellFormed ==
    [name |-> "reply", credential |-> TRUE, send |-> "ok", is_json |-> TRUE,
     value |-> [choices |-> <<[message |-> [role |-> "assistant", content |-> "insight"]]>>]]

RemoteCases ==
    << WellFormed,
       [name |-> "no_credential", credential |-> FALSE, send |-> "ok", is_json |-> TRUE,
        value |-> WellFormed.value],
       [name |-> "send_error", credential |-> TRUE, send |-> "error", is_json |-> FALSE,
        value |-> [none |-> 0]],
       [name |-> "not_json", credential |-> TRUE, send |-> "ok", is_json |-> FALSE,
        value |-> [none |-> 0]],
       [name |-> "no_choices", credential |-> TRUE, send |-> "ok", is_json |-> TRUE,
        value |-> [error |-> [message |-> "invalid api key"]]],
       [name |-> "empty_choices", credential |-> TRUE, send |-> "ok", is_json |-> TRUE,
        value |-> [choices |-> <<>>]],
       [name |-> "no_message", credential |-> TRUE, send |-> "ok", is_json |-> TRUE,
        value |-> [choices |-> <<[index |-> 0]>>]],
       [name |-> "no_content", credential |-> TRUE, send |-> "ok", is_json |-> TRUE,
        value |-> [choices |-> <<[message |-> [role |-> "assistant"]]>>]] >>

\* response.json()["choices"][0]["message"]["content"] raises
ParseRaises(rc) ==
    \/ ~rc.is_json
    \/ "choices" \notin DOMAIN rc.value
    \/ Len(rc.value.choices) = 0
    \/ "message" \notin DOMAIN rc.value.choices[1]
    \/ "content" \notin DOMAIN rc.value.choices[1].message

\* faulty variant: only the request is guarded; a parse failure yields no fallback
TryBlock_RequestOnly(rc) ==
    IF ~rc.credential THEN [posted |-> FALSE, result |-> FALLBACK]
    ELSE IF rc.send # "ok" THEN [posted |-> TRUE, result |-> FALLBACK]
    ELSE IF ParseRaises(rc) THEN [posted |-> TRUE, result |-> ""]
    ELSE [posted |-> TRUE, result |-> rc.value.choices[1].message.content]

\* the try block, lines 188-208: the secret lookup, the POST, the parse
TryBlock(rc) ==
    IF ~rc.credential THEN [posted |-> FALSE, result |-> FALLBACK]
    ELSE IF rc.send # "ok" THEN [posted |-> TRUE, result |-> FALLBACK]
    ELSE IF ParseRaises(rc) THEN [posted |-> TRUE, result |-> FALLBACK]
    ELSE [posted |-> TRUE, result |-> rc.value.choices[1].message.content]

-----------------------------------------------------------------------------
(* One execution of the script *)

None == "<None>"

\* if user_input:
Truthy(u) == u # None /\ u # ""

EmptyFrame == [columns |-> <<>>, rows |-> <<>>]

\* st.session_state.messages, [] when the key does not exist yet
Messages(ss) == IF ss.has_messages THEN ss.messages ELSE <<>>

\* st.stop() before the chat section: session state is not touched
Stopped(ss, sections, miss, d, f) ==
    [rendered |-> sections, missing |-> miss, df |-> d, filtered |-> f,
     context |-> <<>>, session_state |-> ss, posted |-> FALSE,
     remote |-> "none"]

\* lines 85-126: chart, table, chat header, transcript, chat input
Sections == {"title", "filters", "chart", "table", "chat_header", "transcript", "chat_input"}

\* faulty variant: the user turn replaces the list instead of being appended
ChatBlock_Resets(ss, u, rc, d, f, ssel, gsel, msel) ==
    LET m1 == <<[role |-> "user", content |-> u]>>
        t == TryBlock(rc)
        m2 == Append(m1, [role |-> "assistant", content |-> t.result])
    IN  IF IntRaises(SumBirths(f))
        THEN [rendered |-> Sections \cup {"user_bubble", "exception"},
              missing |-> <<>>, df |-> d, filtered |-> f, context |-> <<>>,
              session_state |-> [has_messages |-> TRUE, messages |-> m1],
              posted |-> FALSE, remote |-> "none"]
        ELSE [rendered |-> Sections \cup {"user_bubble", "assistant_bubble"},
              missing |-> <<>>, df |-> d, filtered |-> f,
              context |-> <<BuildContext(f, ssel, gsel, msel)>>,
              session_state |-> [has_messages |-> TRUE, messages |-> m2],
              posted |-> t.posted, remote |-> rc.name]

\* lines 128-213
ChatBlock(ss, u, rc, d, f, ssel, gsel, msel) ==
    LET m1 == Append(Messages(ss), [role |-> "user", content |-> u])
    IN  IF IntRaises(SumBirths(f))
        THEN [rendered |-> Sections \cup {"user_bubble", "exception"},
              missing |-> <<>>, df |-> d, filtered |-> f, context |-> <<>>,
              session_state |-> [has_messages |-> TRUE, messages |-> m1],
              posted |-> FALSE, remote |-> "none"]
        ELSE LET t == TryBlock(rc)
                 m2 == Append(m1, [role |-> "assistant", content |-> t.result])
             IN  [rendered |-> Sections \cup {"user_bubble", "assistant_bubble"},
                  missing |-> <<>>, df |-> d, filtered |-> f,
                  context |-> <<BuildContext(f, ssel, gsel, msel)>>,
                  session_state |-> [has_messages |-> TRUE, messages |-> m2],
                  posted |-> t.posted, remote |-> rc.name]

\* F(e), with e computed once and bound as a value
Bind(F(_), e) == CHOOSE r \in {F(x) : x \in {e}} : TRUE

\* faulty variant: the warning is shown but st.stop() is missing
AfterFilters_NoStop(ss, u, rc, ssel, gsel, msel, d, f) ==
    IF ~Truthy(u)
    THEN [rendered |-> Sections \cup (IF IsEmpty(f) THEN {"warning"} ELSE {}),
          missing |-> <<>>, df |-> d, filtered |-> f, context |-> <<>>,
          session_state |-> [has_messages |-> TRUE, messages |-> Messages(ss)],
          posted |-> FALSE, remote |-> "none"]
    ELSE ChatBlock(ss, u, rc, d, f, ssel, gsel, msel)

\* lines 76-213: the empty-result halt, then the sections and the chat
AfterFilters(ss, u, rc, ssel, gsel, msel, d, f) ==
    IF IsEmpty(f)
    THEN Stopped(ss, {"title", "filters", "warning"}, <<>>, d, f)
    ELSE IF ~Truthy(u)
    THEN [rendered |-> Sections, missing |-> <<>>, df |-> d, filtered |-> f,
          context |-> <<>>,
          session_state |-> [has_messages |-> TRUE, messages |-> Messages(ss)],
          posted |-> FALSE, remote |-> "none"]
    ELSE ChatBlock(ss, u, rc, d, f, ssel, gsel, msel)

\* lines 55-74: the sidebar and the filters
Sidebar(ss, u, rc, ssel, gsel, msel, d) ==
    Bind(LAMBDA f : AfterFilters(ss, u, rc, ssel, gsel, msel, d, f),
         ApplyFilters(d, ssel, gsel, msel))

\* lines 33-48: the required-column check, then coercion and dropna
SchemaCheck(ss, u, rc, ssel, gsel, msel, renamed) ==
    LET miss == MissingCols(renamed) IN
    IF miss # <<>>
    THEN Stopped(ss, {"title", "error_missing_columns"}, miss, EmptyFrame, EmptyFrame)
    ELSE Bind(LAMBDA d : Sidebar(ss, u, rc, ssel, gsel, msel, d),
              DropNaBirths(CoerceBirths(renamed)))

\* faulty variant: st.stop() is missing after the not-found error; df_raw.copy() then raises
Script_NoStop(ss, u, rc, ssel, gsel, msel) ==
    LET df_raw == load_data IN
    IF ~df_raw.present
    THEN Stopped(ss, {"title", "error_not_found", "exception"}, <<>>, EmptyFrame, EmptyFrame)
    ELSE Bind(LAMBDA renamed : SchemaCheck(ss, u, rc, ssel, gsel, msel, renamed),
              RenameColumns(df_raw))

\* the whole script, lines 7-213, with the chat input u and the remote rc
Script(ss, u, rc, ssel, gsel, msel) ==
    LET df_raw == load_data IN
    IF ~df_raw.present
    THEN Stopped(ss, {"title", "error_not_found"}, <<>>, EmptyFrame, EmptyFrame)
    ELSE Bind(LAMBDA renamed : SchemaCheck(ss, u, rc, ssel, gsel, msel, renamed),
              RenameColumns(df_raw))

\* a rerun: new widget values, the chat input of this run, the remote's behaviour
Exec(u, rc, ssel, gsel, msel) ==
    \E out \in {Script(session_state, u, rc, ssel, gsel, msel)} :
    /\ state_sel' = ssel
    /\ gender_sel' = gsel
    /\ month_sel' = msel
    /\ session_state' = out.session_state
    /\ rendered' = out.rendered
    /\ missing' = out.missing
    /\ df' = out.df
    /\ filtered' = out.filtered
    /\ context' = out.context
    /\ run' = [user_input |-> u, remote |-> out.remote]
    /\ posts' = posts + (IF out.posted THEN 1 ELSE 0)
    /\ submits' = submits + (IF Truthy(u) THEN 1 ELSE 0)
    /\ UNCHANGED file

-----------------------------------------------------------------------------
(* User interactions *)

Questions == {"Which state leads?"}

\* one option of a multiselect is added or removed
Toggle(sel, o) == IF o \in sel THEN sel \ {o} ELSE sel \cup {o}

\* the page is opened, or rerun without any change
Load == Exec(None, WellFormed, state_sel, gender_sel, month_sel)

SelectState ==
    /\ "filters" \in rendered
    /\ \E o \in Options(df, state_of_residence) :
          Exec(None, WellFormed, Toggle(state_sel, o), gender_sel, month_sel)

SelectGender ==
    /\ "filters" \in rendered
    /\ \E o \in Options(df, sex_of_infant) :
          Exec(None, WellFormed, state_sel, Toggle(gender_sel, o), month_sel)

SelectMonth ==
    /\ "filters" \in rendered
    /\ \E o \in Options(df, month) :
          Exec(None, WellFormed, state_sel, gender_sel, Toggle(month_sel, o))

SubmitChat ==
    /\ "chat_input" \in rendered
    /\ submits < MaxSubmits
    /\ \E u \in Questions : \E i \in DOMAIN RemoteCases :
          Exec(u, RemoteCases[i], state_sel, gender_sel, month_sel)

-----------------------------------------------------------------------------
(* Dataset files of the model *)

HeaderCDC ==
    << <<"S","t","a","t","e"," ","o","f"," ","R","e","s","i","d","e","n","c","e">>,
       <<"M","o","n","t","h">>,
       <<"M","o","n","t","h"," ","C","o","d","e">>,
       <<"Y","e","a","r"," ","C","o","d","e">>,
       <<"S","e","x"," ","o","f"," ","I","n","f","a","n","t">>,
       <<"B","i","r","t","h","s">> >>

HeaderPadded ==
    << <<" "," ","s","t","a","t","e"," ","o","f"," ","r","e","s","i","d","e","n","c","e">>,
       month,
       month_code,
       <<"Y","e","a","r"," ","C","o","d","e">>,
       <<"S","e","x"," ","O","f"," ","I","n","f","a","n","t"," ">>,
       <<" ","B","I","R","T","H","S"," ">> >>

HeaderNoBirths == [HeaderCDC EXCEPT ![6] = <<"B","i","r","t","h"," ","C","o","u","n","t">>]

HeaderTwoMissing ==
    [HeaderCDC EXCEPT ![1] = <<"S","t","a","t","e">>,
                      ![5] = <<"G","e","n","d","e","r">>]

Headers == {HeaderCDC, HeaderPadded, HeaderNoBirths, HeaderTwoMissing}

MonthCode(m) == CASE m = "Jan" -> "1" [] m = "Feb" -> "2" [] OTHER -> NA

\* a CSV line, in the column order of the headers above
Row(s, m, g, b) == <<s, m, MonthCode(m), "2025", g, b>>

\* (state, month, sex) of the rows of the data specification
DataCats == {<<"CA", "Jan", "M">>, <<"TX", "Feb", "M">>, <<NA, "Jan", NA>>}

DataBirths == {"x", "-1", "1.5", "inf"}

DataRows == {Row(c[1], c[2], c[3], b) : c \in DataCats, b \in DataBirths}

SeqsUpTo(n, S) == UNION {[1..k -> S] : k \in 0..n}

DataFiles ==
    {[present |-> TRUE, header |-> h, rows |-> rs] :
        h \in {HeaderPadded, HeaderTwoMissing}, rs \in SeqsUpTo(MaxRows, DataRows)}

CsvFile(h, rs) == [present |-> TRUE, header |-> h, rows |-> rs]

\* the files of the session specification: no file, two broken headers, a file
\* whose births are all unparseable, a clean file and one with an infinite value
SessionFiles ==
    { NoFile,
      CsvFile(HeaderNoBirths, <<Row("CA", "Jan", "M", "2")>>),
      CsvFile(HeaderTwoMissing, <<Row("CA", "Jan", "M", "2")>>),
      CsvFile(HeaderCDC, <<Row("CA", "Jan", "M", "x"), Row("TX", "Jan", "M", "")>>),
      CsvFile(HeaderCDC, <<Row("CA", "Jan", "M", "2"), Row("TX", "Jan", "M", "1.5")>>),
      CsvFile(HeaderPadded, <<Row("CA", "Jan", "M", "2"), Row("TX", "Jan", "M", "inf")>>) }

-----------------------------------------------------------------------------
(* Specifications *)

\* a session before its first run
Init ==
    /\ file \in SessionFiles
    /\ state_sel = {"All"}
    /\ gender_sel = {"All"}
    /\ month_sel = {"All"}
    /\ session_state = [has_messages |-> FALSE, messages |-> <<>>]
    /\ rendered = {}
    /\ missing = <<>>
    /\ df = EmptyFrame
    /\ filtered = EmptyFrame
    /\ context = <<>>
    /\ run = [user_input |-> None, remote |-> "none"]
    /\ posts = 0
    /\ submits = 0

Next == Load \/ SelectState \/ SelectGender \/ SelectMonth \/ SubmitChat

Spec == Init /\ [][Next]_vars

\* the selections a user can have made on a file with these columns
SelectionsOf(renamed) ==
    IF MissingCols(renamed) = <<>>
    THEN (SUBSET Options(renamed, state_of_residence))
            \X (SUBSET Options(renamed, sex_of_infant))
            \X (SUBSET Options(renamed, month))
    ELSE {<<{"All"}, {"All"}, {"All"}>>}

\* a session showing a file under some selection, nothing asked yet: the
\* state the first runs of the script leave (every file here is present)
InitData ==
    /\ file \in DataFiles
    /\ \E renamed \in {RenameColumns(file)} :
       \E sel \in SelectionsOf(renamed) :
       \E out \in {SchemaCheck([has_messages |-> FALSE, messages |-> <<>>],
                               None, WellFormed, sel[1], sel[2], sel[3], renamed)} :
          /\ sel[1] \subseteq Options(out.df, state_of_residence)
          /\ sel[2] \subseteq Options(out.df, sex_of_infant)
          /\ sel[3] \subseteq Options(out.df, month)
          /\ state_sel = sel[1]
          /\ gender_sel = sel[2]
          /\ month_sel = sel[3]
          /\ session_state = out.session_state
          /\ rendered = out.rendered
          /\ missing = out.missing
          /\ df = out.df
          /\ filtered = out.filtered
          /\ context = <<>>
    /\ run = [user_input |-> None, remote |-> "none"]
    /\ posts = 0
    /\ submits = 0

\* the first question of the session, answered by a well-formed reply
Ask ==
    /\ "chat_input" \in rendered
    /\ submits = 0
    /\ \E u \in Questions : Exec(u, WellFormed, state_sel, gender_sel, month_sel)

NextData == Ask

SpecData == InitData /\ [][NextData]_vars

-----------------------------------------------------------------------------
(* Vocabulary of the properties *)

\* the conversation
Conversation == Messages(session_state)

\* the frame has passed the required-column check in the last run
Normalized == "filters" \in rendered

\* cell texts that denote numbers, and those that denote non-negative ones
NumericTexts == {"-1", "0", "1", "1.5", "2", "inf"}

NonNegativeTexts == NumericTexts \ {"-1"}

BirthsOf(frame, i) == frame.rows[i][Col(frame, births)]

\* x <= y on floats (false whenever a NaN is involved)
LessEq(x, y) ==
    /\ x.k # "nan"
    /\ y.k # "nan"
    /\ \/ y.k = "inf"
       \/ x.k = "fin" /\ y.k = "fin" /\ x.v <= y.v

NonNegative(x) == LessEq(Fin(0), x)

\* one dimension lets a value through: "All" is selected, or the value is
Lets(sel, value) == "All" \in sel \/ value \in sel

\* the same, reading "All" as the whole selection
LetsExact(sel, value) == sel = {"All"} \/ value \in sel

Keeps(frame, r, ssel, gsel, msel) ==
    /\ Lets(ssel, r[Col(frame, state_of_residence)])
    /\ Lets(gsel, r[Col(frame, sex_of_infant)])
    /\ Lets(msel, r[Col(frame, month)])

KeepRow(frame, r) == Keeps(frame, r, state_sel, gender_sel, month_sel)

KeepRowExact(frame, r) ==
    /\ LetsExact(state_sel, r[Col(frame, state_of_residence)])
    /\ LetsExact(gender_sel, r[Col(frame, sex_of_infant)])
    /\ LetsExact(month_sel, r[Col(frame, month)])

Count(rows, r) == Cardinality({i \in DOMAIN rows : rows[i] = r})

RECURSIVE SumValues(_, _)
SumValues(totals, keys) ==
    IF keys = {} THEN Fin(0)
    ELSE LET key == CHOOSE x \in keys : TRUE
         IN  Add(totals[key], SumValues(totals, keys \ {key}))

SumOfTotals(totals) == SumValues(totals, DOMAIN totals)

RolesAlternate(msgs) ==
    \A i \in DOMAIN msgs : msgs[i].role = (IF i % 2 = 1 THEN "user" ELSE "assistant")

FailureCases ==
    {"no_credential", "send_error", "not_json", "no_choices", "empty_choices",
     "no_message", "no_content"}

ErrorSections == {"error_not_found", "error_missing_columns", "exception"}

-----------------------------------------------------------------------------
(* Properties *)

\* C1: after any sequence of filter changes and chat submissions the
\* conversation holds two turns per submission, user then assistant.
C1_TwoTurnsPerSubmission ==
    /\ Len(Conversation) = 2 * submits
    /\ RolesAlternate(Conversation)

\* C2: a submission whose remote call fails appends the user turn and an
\* assistant turn holding the fallback string, shows no error, and makes at
\* most one request.
C2_FailureGivesFallback ==
    [][ (submits' = submits + 1 /\ run'.remote \in FailureCases) =>
          /\ Len(Messages(session_state')) = Len(Conversation) + 2
          /\ IsPrefix(Conversation, Messages(session_state'))
          /\ Messages(session_state')[Len(Conversation) + 1] =
                [role |-> "user", content |-> run'.user_input]
          /\ Messages(session_state')[Len(Conversation) + 2] =
                [role |-> "assistant", content |-> FALLBACK]
          /\ rendered' \cap ErrorSections = {}
          /\ posts' <= posts + 1 ]_vars

C2_Witness ==
    /\ submits = 2
    /\ run.remote = "no_content"
    /\ Len(Conversation) = 4
    /\ Conversation[2].content = "insight"
    /\ Conversation[4].content = FALLBACK

\* C3 as stated: after normalization every births value is a non-negative
\* number, none is missing, and the six required columns are present.
C3_BirthsNonNegative ==
    Normalized =>
        /\ \A i \in DOMAIN df.rows : ~IsNa(BirthsOf(df, i)) /\ NonNegative(BirthsOf(df, i))
        /\ \A c \in Range(required_cols) : InSeq(c, df.columns)

\* C3 amended: the normalized rows are the raw rows whose births cell denotes
\* a number, in order; no births value is missing; a value is non-negative
\* whenever the raw cell denotes a non-negative number; the six required
\* columns are present.
C3_BirthsNumeric ==
    Normalized =>
        \A kept \in {SelectSeq(file.rows, LAMBDA r : r[6] \in NumericTexts)} :
        /\ Len(df.rows) = Len(kept)
        /\ \A i \in DOMAIN df.rows :
              /\ \A j \in 1..5 : df.rows[i][j] = kept[i][j]
              /\ ~IsNa(BirthsOf(df, i))
              /\ kept[i][6] \in NonNegativeTexts => NonNegative(BirthsOf(df, i))
        /\ \A c \in Range(required_cols) : InSeq(c, df.columns)

C3_Witness ==
    /\ Normalized
    /\ Len(file.rows) = 2
    /\ file.rows[1][6] = "x"
    /\ file.rows[2][6] = "1.5"
    /\ Len(df.rows) = 1
    /\ BirthsOf(df, 1) = Fin(3)

\* C4 as stated: a row is kept iff in each dimension the selection equals
\* "All" or holds the row's value.
C4_KeptIffExact ==
    Normalized => filtered.rows = SelectSeq(df.rows, LAMBDA r : KeepRowExact(df, r))

\* C4 amended: a row is kept iff in each dimension the selection contains
\* "All" or holds the row's value; the three restrictions are conjoined.
C4_KeptIff ==
    Normalized => filtered.rows = SelectSeq(df.rows, LAMBDA r : KeepRow(df, r))

C4_Witness ==
    /\ Normalized
    /\ state_sel = {"All", "CA"}
    /\ gender_sel = {}
    /\ month_sel = {"Jan"}
    /\ Len(df.rows) = 2
    /\ filtered.rows = <<>>

\* C5: a dimension whose selection contains "All" does not affect the
\* result: whatever accompanies "All", the rows are those the other two
\* dimensions let through.
C5_AllIsIdentity ==
    Normalized =>
        /\ "All" \in state_sel =>
              /\ \A X \in SUBSET Observed(df, state_of_residence) :
                    ApplyFilters(df, {"All"} \cup X, gender_sel, month_sel) = filtered
              /\ filtered.rows =
                    SelectSeq(df.rows, LAMBDA r :
                       /\ Lets(gender_sel, r[Col(df, sex_of_infant)])
                       /\ Lets(month_sel, r[Col(df, month)]))
        /\ "All" \in gender_sel =>
              /\ \A X \in SUBSET Observed(df, sex_of_infant) :
                    ApplyFilters(df, state_sel, {"All"} \cup X, month_sel) = filtered
              /\ filtered.rows =
                    SelectSeq(df.rows, LAMBDA r :
                       /\ Lets(state_sel, r[Col(df, state_of_residence)])
                       /\ Lets(month_sel, r[Col(df, month)]))
        /\ "All" \in month_sel =>
              /\ \A X \in SUBSET Observed(df, month) :
                    ApplyFilters(df, state_sel, gender_sel, {"All"} \cup X) = filtered
              /\ filtered.rows =
                    SelectSeq(df.rows, LAMBDA r :
                       /\ Lets(state_sel, r[Col(df, state_of_residence)])
                       /\ Lets(gender_sel, r[Col(df, sex_of_infant)]))

C5_Witness ==
    /\ Normalized
    /\ state_sel = {"All", "TX"}
    /\ gender_sel = {"M"}
    /\ month_sel = {"All", "Jan"}
    /\ Len(df.rows) = 2
    /\ Len(filtered.rows) = 2
    /\ filtered.rows[1][1] = "CA"

\* C6 as stated: the filtered rows are rows of the full dataset and their
\* births sum never exceeds the sum over the full dataset.
C6_SumNeverExceeds ==
    Normalized =>
        /\ \A r \in Range(filtered.rows) : Count(filtered.rows, r) <= Count(df.rows, r)
        /\ LessEq(SumBirths(filtered), SumBirths(df))

\* C6 amended: the filtered rows are rows of the full dataset; when no births
\* value of the dataset is negative, their sum does not exceed the full sum.
C6_SubsetAndSum ==
    Normalized =>
        /\ \A r \in Range(filtered.rows) : Count(filtered.rows, r) <= Count(df.rows, r)
        /\ (\A i \in DOMAIN df.rows : NonNegative(BirthsOf(df, i))) =>
              LessEq(SumBirths(filtered), SumBirths(df))

C6_Witness ==
    /\ Normalized
    /\ state_sel = {"CA"}
    /\ Len(df.rows) = 2
    /\ Len(filtered.rows) = 1
    /\ SumBirths(filtered) = Fin(3)
    /\ SumBirths(df) = Fin(6)

\* C7: the total_births of a chat context equals the sum of its state_totals
\* and the sum of its gender_totals.
C7_TotalsAgree ==
    context # <<>> =>
        /\ Fin(2 * context[1].total_births) = SumOfTotals(context[1].state_totals)
        /\ Fin(2 * context[1].total_births) = SumOfTotals(context[1].gender_totals)

\* C8: a selection that matches no row shows the warning and nothing after
\* the filter controls, makes no request and leaves the session untouched;
\* the next selection that matches rows shows every section again with the
\* conversation as it was.
C8_EmptyResultHalts ==
    [][ /\ ("filters" \in rendered' /\ \A r \in Range(df'.rows) : ~Keeps(df', r, state_sel', gender_sel', month_sel')) =>
              /\ rendered' = {"title", "filters", "warning"}
              /\ posts' = posts
              /\ session_state' = session_state
        /\ ("warning" \in rendered /\ \E r \in Range(df'.rows) : Keeps(df', r, state_sel', gender_sel', month_sel')) =>
              /\ Sections \subseteq rendered'
              /\ "warning" \notin rendered'
              /\ Messages(session_state') = Conversation ]_vars

C8_Witness ==
    /\ "warning" \in rendered
    /\ state_sel = {}
    /\ Len(df.rows) = 2
    /\ Len(Conversation) = 2

\* C9: without a dataset, or with a required column absent after renaming,
\* a run shows the error (naming the absent columns) and nothing else beyond
\* the page title, and the conversation gets no turn.
C9_FatalErrorsHalt ==
    /\ (rendered # {} /\ ~file.present) =>
          /\ rendered = {"title", "error_not_found"}
          /\ Conversation = <<>>
          /\ posts = 0
    /\ (rendered # {} /\ file.present
          /\ \E c \in Range(required_cols) :
                \A i \in DOMAIN file.header : NormalizeName(file.header[i]) # c) =>
          /\ rendered = {"title", "error_missing_columns"}
          /\ missing = SelectSeq(required_cols, LAMBDA c :
                          \A i \in DOMAIN file.header : NormalizeName(file.header[i]) # c)
          /\ missing # <<>>
          /\ Conversation = <<>>
          /\ posts = 0
    /\ (rendered # {} /\ file.present /\ file.header = HeaderNoBirths) =>
          missing = <<births>>
    /\ (rendered # {} /\ file.present /\ file.header = HeaderTwoMissing) =>
          missing = <<state_of_residence, sex_of_infant>>

C9_Witness ==
    /\ file.present
    /\ rendered = {"title", "error_missing_columns"}
    /\ missing = <<state_of_residence, sex_of_infant>>

\* C10: every run extends the conversation: the old list is a prefix of the
\* new one, and a run without a chat submission leaves it as it was.
C10_AppendOnly ==
    [][ /\ IsPrefix(Conversation, Messages(session_state'))
        /\ submits' = submits => Messages(session_state') = Conversation ]_vars

C10_Witness ==
    /\ Len(Conversation) = 4
    /\ "warning" \in rendered
    /\ month_sel = {}

====
